---- MODULE Spec2Model ----
(***************************************************************************)
(* Model of the retrieval-augmented question-answering pipeline of         *)
(* src/llm_agent.py: call_llm, build_context_string, build_prompt and      *)
(* answer_question, together with the module-level client construction.   *)
(*                                                                         *)
(* A Python str is modelled as a sequence of tokens.  A token is either    *)
(* the space character Sp, the newline character Nl, or a word (a maximal  *)
(* run of characters without space or newline).  The template of           *)
(* build_prompt contains no tab, so leading whitespace is a run of Sp.     *)
(* The en dash of "3-5" in the template is written as an ASCII hyphen.     *)
(***************************************************************************)
EXTENDS Integers, Sequences, FiniteSets, TLC

VARIABLES
    env,          \* value of the environment variable OPENAI_API_KEY
    modState,     \* "unloaded", "loaded" or "import_failed" (llm_agent module)
    clientKey,    \* api_key held by the module-level _client
    pc,           \* position inside answer_question / phase of a function check
    question,     \* argument question of answer_question
    k,            \* argument k of answer_question
    chunks,       \* rows returned by retrieve_chunks (a sequence of fragments)
    context,      \* local context of build_prompt
    prompt,       \* local prompt of answer_question
    api_key,      \* local api_key of call_llm: <<>> before line 21, else <<value>>
    remote,       \* outcome of _client.chat.completions.create: <<>> or <<outcome>>
    answer,       \* local answer of answer_question
    result,       \* <<>> or <<the dict returned by answer_question>>
    error,        \* <<>> or <<the exception that left answer_question>>
    retrRaised,   \* <<>> or <<the exception retrieve_chunks raised>>
    log           \* calls made during the current invocation, in order

vars == <<env, modState, clientKey, pc, question, k, chunks, context, prompt,
          api_key, remote, answer, result, error, retrRaised, log>>

----------------------------------------------------------------------------
(* Bounds of the model *)

MaxChunks == 2      \* longest fragment sequence the retriever returns
MaxId == 1          \* fragment ids are 0..MaxId
MaxK == 2           \* largest k passed to answer_question

----------------------------------------------------------------------------
(* Strings *)

Sp == " "
Nl == "\n"

IsWhitespace(t) == t \in {Sp, Nl}

\* "w1 w2 ... wn": words separated by single spaces
Words(ws) ==
    [i \in 1..(2 * Len(ws) - 1) |-> IF i % 2 = 1 THEN ws[(i + 1) \div 2] ELSE Sp]

Spaces(n) == [i \in 1..n |-> Sp]

\* sub in s  (Python: sub in s)
Contains(s, sub) ==
    \E i \in 1..(Len(s) - Len(sub) + 1) : SubSeq(s, i, i + Len(sub) - 1) = sub

\* s[at:].startswith(sub), with at counted from 1
StartsAt(s, at, sub) ==
    /\ at + Len(sub) - 1 <= Len(s)
    /\ SubSeq(s, at, at + Len(sub) - 1) = sub

\* s.split("\n")
RECURSIVE SplitLines(_)
SplitLines(s) ==
    IF \A i \in 1..Len(s) : s[i] # Nl
    THEN <<s>>
    ELSE LET p == CHOOSE i \in 1..Len(s) :
                      s[i] = Nl /\ \A j \in 1..(i - 1) : s[j] # Nl
         IN  <<SubSeq(s, 1, p - 1)>> \o SplitLines(SubSeq(s, p + 1, Len(s)))

\* sep.join(parts)
RECURSIVE Join(_, _)
Join(sep, parts) ==
    IF parts = <<>> THEN <<>>
    ELSE IF Len(parts) = 1 THEN parts[1]
    ELSE parts[1] \o sep \o Join(sep, Tail(parts))

\* a line that holds nothing but spaces (also the empty line)
IsBlankLine(l) == \A i \in 1..Len(l) : l[i] = Sp

\* number of leading spaces of a line
LeadingSpaces(l) ==
    Cardinality({i \in 1..Len(l) : \A j \in 1..i : l[j] = Sp})

SetMin(S) == CHOOSE x \in S : \A y \in S : x <= y

\* textwrap.dedent(text): whitespace-only lines become empty, and the longest
\* common leading whitespace of the remaining lines is removed from each.
Dedent(text) ==
    LET lines   == SplitLines(text)
        indents == {LeadingSpaces(lines[i]) :
                        i \in {j \in 1..Len(lines) : ~IsBlankLine(lines[j])}}
        margin  == IF indents = {} THEN 0 ELSE SetMin(indents)
        out     == [i \in 1..Len(lines) |->
                        IF IsBlankLine(lines[i]) THEN <<>>
                        ELSE SubSeq(lines[i], margin + 1, Len(lines[i]))]
    IN  Join(<<Nl>>, out)

\* str.strip(): leading and trailing whitespace removed
Strip(s) ==
    LET solid == {i \in 1..Len(s) : ~IsWhitespace(s[i])}
    IN  IF solid = {} THEN <<>>
        ELSE SubSeq(s, SetMin(solid),
                    CHOOSE x \in solid : \A y \in solid : y <= x)

----------------------------------------------------------------------------
(* build_context_string *)

\* the f-string of lines 53-58; integers are formatted in decimal
Header(row) ==
    <<"[chunk_id=", ToString(row.chunk_id), ",", Sp,
      "source=", row.source, ",", Sp,
      "doc_type=", row.doc_type, ",", Sp,
      "year=", ToString(row.year), "]">>

\* header + "\n" + str(row["text"]); the text of a fragment is a str,
\* on which str() returns the string itself
Block(row) == Header(row) \o <<Nl>> \o row.text

\* variant: a row equal to the row before it is dropped
build_context_string_dedup(chunks_df) ==
    LET kept == {i \in 1..Len(chunks_df) : i = 1 \/ chunks_df[i] # chunks_df[i - 1]}
        Nth(n) == CHOOSE i \in kept : Cardinality({j \in kept : j < i}) = n - 1
    IN  Join(<<Nl, Nl>>, [n \in 1..Cardinality(kept) |-> Block(chunks_df[Nth(n)])])

build_context_string(chunks_df) ==
    Join(<<Nl, Nl>>, [i \in 1..Len(chunks_df) |-> Block(chunks_df[i])])

----------------------------------------------------------------------------
(* build_prompt *)

\* src/llm_agent.py:76
RoleLine == Words(<<"You", "are", "a", "financial", "and", "ESG", "analyst",
      "answering", "questions", "about", "EssilorLuxottica.">>)
\* src/llm_agent.py:78
GroundingLine == Words(<<"Use", "ONLY", "the", "information", "provided",
      "in", "the", "text", "chunks", "below.">>)
\* src/llm_agent.py:79
FallbackRuleLine == Words(<<"If", "the", "answer", "does", "not", "appear",
      "in", "the", "chunks,", "respond", "exactly:">>)
\* src/llm_agent.py:80
FallbackSentenceLine == Words(<<"\"Based", "on", "the", "provided",
      "documents,", "this", "information", "is", "not", "available.\"">>)
\* src/llm_agent.py:82
RulesLabel == Words(<<"Rules:">>)
\* src/llm_agent.py:83
Rule1 == Words(<<"1.", "Cite", "chunk_ids", "like", "this:",
      "[chunk_id=5].">>)
\* src/llm_agent.py:84
Rule2 == Words(<<"2.", "Do", "NOT", "introduce", "information", "that", "is",
      "not", "in", "the", "chunks.">>)
\* src/llm_agent.py:85
Rule3 == Words(<<"3.", "Keep", "the", "answer", "to", "3-5", "sentences.">>)
\* src/llm_agent.py:86
Rule4 == Words(<<"4.", "If", "chunks", "conflict,", "choose", "the", "one",
      "with", "the", "most", "recent", "year.">>)
\* src/llm_agent.py:88
QuestionLabel == Words(<<"User", "question:">>)
\* src/llm_agent.py:91
ChunksLabel == Words(<<"Retrieved", "chunks:">>)
\* src/llm_agent.py:94
OutputLabel == Words(<<"Now", "provide:">>)
\* src/llm_agent.py:95
Output1 == Words(<<"1.", "A", "direct", "answer", "(3-5", "sentences).">>)
\* src/llm_agent.py:96
Output2 == Words(<<"2.", "A", "short", "note", "on", "missing", "or",
      "uncertain", "information.">>)
\* src/llm_agent.py:97
Output3 == Words(<<"3.", "A", "list", "of", "chunk_ids", "used.">>)

\* every line of the template literal is written with this indentation
TemplateIndent == 4

\* a template line as written in the source: indentation, text, newline
T(line) == Spaces(TemplateIndent) \o line \o <<Nl>>

\* lines 75-89: from the opening quotes up to the placeholder {question}
TemplateHead ==
    <<Nl>> \o T(RoleLine) \o <<Nl>>
    \o T(GroundingLine) \o T(FallbackRuleLine) \o T(FallbackSentenceLine)
    \o <<Nl>>
    \o T(RulesLabel) \o T(Rule1) \o T(Rule2) \o T(Rule3) \o T(Rule4) \o <<Nl>>
    \o T(QuestionLabel) \o Spaces(TemplateIndent)

\* lines 89-92: between the placeholders {question} and {context}
TemplateMiddle ==
    <<Nl, Nl>> \o T(ChunksLabel) \o Spaces(TemplateIndent)

\* lines 92-98: from the placeholder {context} to the closing quotes
TemplateTail ==
    <<Nl, Nl>> \o T(OutputLabel) \o T(Output1) \o T(Output2) \o T(Output3)
    \o Spaces(TemplateIndent)

\* the f-string of lines 75-98 with both placeholders filled in
Template(q, ctx) == TemplateHead \o q \o TemplateMiddle \o ctx \o TemplateTail

build_prompt(q, chunks_df) ==
    Strip(Dedent(Template(q, build_context_string(chunks_df))))

----------------------------------------------------------------------------
(* Inputs: fragments, questions, environment *)

ScopeText == Words(<<"Scope", "1:", "116,092", "tCO2e">>)
\* a text whose lines all start with spaces
IndentedText == <<Sp, Sp>> \o Words(<<"Revenue", "grew">>) \o <<Nl, Sp, Sp>>
                \o Words(<<"in", "FY24">>)
\* a text of several lines, one of them holding only a space
GappedText == <<"Revenue", Nl, Sp, Nl, "EBITDA">>
\* a text that itself holds a line of the form of a header
QuotedHeaderText ==
    <<"see", Nl>> \o
    Header([chunk_id |-> 0, source |-> "factset_esg_clean.txt",
            doc_type |-> "esg", year |-> 2024])

Ids == 0..MaxId
Origins == {[source |-> "factset_esg_clean.txt", doc_type |-> "esg", year |-> 2024],
            [source |-> "factset_financials_clean.txt", doc_type |-> "financial",
             year |-> 2023]}
Texts == {ScopeText, IndentedText, GappedText, QuotedHeaderText}

Fragment(id, origin, text) ==
    [chunk_id |-> id, source |-> origin.source, doc_type |-> origin.doc_type,
     year |-> origin.year, text |-> text]

\* every fragment a DataFrame handed to build_context_string may hold
Fragments == {Fragment(id, o, t) : id \in Ids, o \in Origins, t \in Texts}

SeqsUpTo(S, n) == UNION {[1..m -> S] : m \in 0..n}

\* the fragment store behind retrieve_chunks: ids are unique within it
StoreText(id) ==
    CASE id = 0 -> ScopeText
      [] id = 1 -> IndentedText
      [] OTHER  -> GappedText
StoreOrigin(id) ==
    IF id % 2 = 0
    THEN [source |-> "factset_esg_clean.txt", doc_type |-> "esg", year |-> 2024]
    ELSE [source |-> "factset_financials_clean.txt", doc_type |-> "financial",
          year |-> 2023]
Store == {Fragment(id, StoreOrigin(id), StoreText(id)) : id \in Ids}

Questions ==
    { <<>>,
      Words(<<"What", "were", "Scope", "1", "emissions?">>),
      <<Sp, Sp>> \o Words(<<"What", "was", "EBITDA", "in", "FY24?">>),
      <<"Revenue?", Nl, Sp, Sp, "EBITDA?">>,
      <<"Revenue?", Nl, Sp, Nl, "EBITDA?">> }

KValues == 0..MaxK

\* os.getenv returns None for a variable that is not set
None == "None"
EnvValues == {None, "", "sk-A", "sk-B"}

\* Python: not api_key
Absent(key) == key = None \/ key = ""

----------------------------------------------------------------------------
(* Outcomes of the external calls *)

RetrieverErrors ==
    {[type |-> "FileNotFoundError", msg |-> Words(<<"index", "not", "found">>)],
     [type |-> "ValueError", msg |-> Words(<<"empty", "vocabulary">>)]}

FallbackSentence == Words(<<"Based", "on", "the", "provided", "documents,",
      "this", "information", "is", "not", "available.">>)

\* what _client.chat.completions.create may do
RemoteOutcomes ==
    {[kind |-> "response", type |-> "", detail |-> FallbackSentence],
     [kind |-> "response", type |-> "",
      detail |-> Words(<<"Scope", "1", "was", "116,092", "tCO2e", "[chunk_id=0].">>)],
     [kind |-> "raised", type |-> "APIConnectionError",
      detail |-> Words(<<"Connection", "error.">>)],
     [kind |-> "raised", type |-> "RateLimitError",
      detail |-> Words(<<"You", "exceeded", "your", "current", "quota">>)],
     \* response.choices == []: line 36 raises IndexError
     [kind |-> "no_choices", type |-> "IndexError",
      detail |-> Words(<<"list", "index", "out", "of", "range">>)],
     \* response.choices[0].message.content is None
     [kind |-> "null_content", type |-> "", detail |-> <<>>]}

StrValue(s) == [type |-> "str", val |-> s]
NoneValue == [type |-> "NoneType", val |-> <<>>]

\* lines 23-26
ConfigError ==
    [type |-> "RuntimeError",
     msg |-> Words(<<"Environment", "variable", "OPENAI_API_KEY", "is", "not",
                     "set.">>) \o <<Nl>>
             \o Words(<<"Set", "it", "before", "running", "the", "notebook.">>)]

\* line 39
Diagnostic(type, detail, p) ==
    <<"LLM", Sp, "CALL", Sp, "FAILED", ":", Sp, type, ":", Sp>> \o detail
    \o <<Nl, Nl>> \o Words(<<"---", "PROMPT", "PREVIEW", "---">>)
    \o <<Nl, Nl>> \o p

Event(op, arg, key) == [op |-> op, arg |-> arg, key |-> key]

----------------------------------------------------------------------------
(* The process: module load, environment, answer_question *)

Init ==
    /\ env \in EnvValues
    /\ modState = "unloaded"
    /\ clientKey = None
    /\ pc = "idle"
    /\ question = <<>>
    /\ k = 0
    /\ chunks = <<>>
    /\ context = <<>>
    /\ prompt = <<>>
    /\ api_key = <<>>
    /\ remote = <<>>
    /\ answer = NoneValue
    /\ result = <<>>
    /\ error = <<>>
    /\ retrRaised = <<>>
    /\ log = <<>>

callVars == <<pc, question, k, chunks, context, prompt, api_key, remote, answer,
              result, error, retrRaised, log>>

\* import llm_agent: line 13 reads the variable and constructs the client
\* with the value read.  OpenAI(api_key=None) finds no key in the variable
\* either and raises OpenAIError, so the import fails; any str, the empty
\* one included, is kept by the client as its key.
LoadModule ==
    /\ modState = "unloaded"
    /\ clientKey' = env
    /\ modState' = IF env = None THEN "import_failed" ELSE "loaded"
    /\ UNCHANGED <<env, callVars>>

\* the environment of the process changes (os.environ[...] = v, del os.environ[...])
SetEnv(v) ==
    /\ v # env
    /\ env' = v
    /\ UNCHANGED <<modState, clientKey, callVars>>

\* answer_question(q, kk) is entered and calls retrieve_chunks (lines 119-123)
Invoke(q, kk) ==
    /\ modState = "loaded"
    /\ pc = "idle"
    /\ question' = q
    /\ k' = kk
    /\ chunks' = <<>>
    /\ context' = <<>>
    /\ prompt' = <<>>
    /\ api_key' = <<>>
    /\ remote' = <<>>
    /\ answer' = NoneValue
    /\ result' = <<>>
    /\ error' = <<>>
    /\ retrRaised' = <<>>
    /\ log' = <<Event("retrieve_chunks", q, "")>>
    /\ pc' = "retrieving"
    /\ UNCHANGED <<env, modState, clientKey>>

\* retrieve_chunks returns rows of the store, at most k of them; what it
\* returns for k < 1 is not fixed by this repository
RetrieverReturns(rows) ==
    /\ pc = "retrieving"
    /\ k >= 1 => Len(rows) <= k
    /\ chunks' = rows
    /\ pc' = "retrieved"
    /\ UNCHANGED <<env, modState, clientKey, question, k, context, prompt, api_key,
                   remote, answer, result, error, retrRaised, log>>

\* variant: an error of retrieve_chunks is taken as an empty result
RetrieverRaises_Swallowed(e) ==
    /\ pc = "retrieving"
    /\ retrRaised' = <<e>>
    /\ chunks' = <<>>
    /\ pc' = "retrieved"
    /\ UNCHANGED <<env, modState, clientKey, question, k, context, prompt,
                   api_key, remote, answer, result, error, log>>

\* retrieve_chunks raises: nothing in answer_question catches it
RetrieverRaises(e) ==
    /\ pc = "retrieving"
    /\ retrRaised' = <<e>>
    /\ error' = <<e>>
    /\ pc' = "raised"
    /\ UNCHANGED <<env, modState, clientKey, question, k, chunks, context, prompt,
                   api_key, remote, answer, result, log>>

\* line 126: prompt = build_prompt(question, chunks)
BuildPrompt ==
    /\ pc = "retrieved"
    /\ context' = build_context_string(chunks)
    /\ prompt' = build_prompt(question, chunks)
    /\ log' = Append(log, Event("build_prompt", question, ""))
    /\ pc' = "built"
    /\ UNCHANGED <<env, modState, clientKey, question, k, chunks, api_key, remote,
                   answer, result, error, retrRaised>>

\* variant: the request is sent without looking at the variable
CallLlm_NoKeyCheck ==
    /\ pc = "built"
    /\ api_key' = <<env>>
    /\ log' = log \o <<Event("call_llm", prompt, ""),
                       Event("create", prompt, clientKey)>>
    /\ pc' = "awaiting"
    /\ UNCHANGED <<env, modState, clientKey, question, k, chunks, context, prompt,
                   remote, answer, result, error, retrRaised>>

\* line 129 enters call_llm: lines 21-26 check the variable, lines 29-34
\* send the request through the module-level _client
CallLlm ==
    /\ pc = "built"
    /\ api_key' = <<env>>
    /\ IF Absent(env)
       THEN /\ error' = <<ConfigError>>
            /\ log' = Append(log, Event("call_llm", prompt, ""))
            /\ pc' = "raised"
       ELSE /\ error' = error
            /\ log' = log \o <<Event("call_llm", prompt, ""),
                               Event("create", prompt, clientKey)>>
            /\ pc' = "awaiting"
    /\ UNCHANGED <<env, modState, clientKey, question, k, chunks, context, prompt,
                   remote, answer, result, retrRaised>>

\* value of call_llm for an outcome of the request (lines 36-39)
LlmValue(o, p) ==
    CASE o.kind = "response"     -> StrValue(o.detail)
      [] o.kind = "null_content" -> NoneValue
      [] OTHER                   -> StrValue(Diagnostic(o.type, o.detail, p))

\* variant: a request that raised is sent a second time before giving up
RemoteEnds_Retry(o) ==
    /\ pc = "awaiting"
    /\ remote' = <<o>>
    /\ answer' = LlmValue(o, prompt)
    /\ result' = <<[answer |-> LlmValue(o, prompt), chunks |-> chunks,
                    prompt_used |-> prompt]>>
    /\ log' = IF o.kind = "raised"
              THEN Append(log, Event("create", prompt, clientKey))
              ELSE log
    /\ pc' = "returned"
    /\ UNCHANGED <<env, modState, clientKey, question, k, chunks, context, prompt,
                   api_key, error, retrRaised>>

\* the request ends with outcome o; call_llm returns and answer_question
\* returns the dict of lines 132-136
RemoteEnds(o) ==
    /\ pc = "awaiting"
    /\ remote' = <<o>>
    /\ answer' = LlmValue(o, prompt)
    /\ result' = <<[answer |-> LlmValue(o, prompt), chunks |-> chunks,
                    prompt_used |-> prompt]>>
    /\ pc' = "returned"
    /\ UNCHANGED <<env, modState, clientKey, question, k, chunks, context, prompt,
                   api_key, error, retrRaised, log>>

\* the caller has the result or the exception and the frame of
\* answer_question is gone; the next invocation may start
Finish ==
    /\ pc \in {"returned", "raised"}
    /\ pc' = "idle"
    /\ question' = <<>>
    /\ k' = 0
    /\ chunks' = <<>>
    /\ context' = <<>>
    /\ prompt' = <<>>
    /\ api_key' = <<>>
    /\ remote' = <<>>
    /\ answer' = NoneValue
    /\ result' = <<>>
    /\ error' = <<>>
    /\ retrRaised' = <<>>
    /\ log' = <<>>
    /\ UNCHANGED <<env, modState, clientKey>>

Next ==
    \/ LoadModule
    \/ \E v \in EnvValues : SetEnv(v)
    \/ \E q \in Questions, kk \in KValues : Invoke(q, kk)
    \/ \E rows \in SeqsUpTo(Store, MaxChunks) : RetrieverReturns(rows)
    \/ \E e \in RetrieverErrors : RetrieverRaises(e)
    \/ BuildPrompt
    \/ CallLlm
    \/ \E o \in RemoteOutcomes : RemoteEnds(o)
    \/ Finish

Spec == Init /\ [][Next]_vars

\* the same process with callers that keep the contract of the request:
\* a non-empty question and a positive k
NextContract ==
    \/ LoadModule
    \/ \E v \in EnvValues : SetEnv(v)
    \/ \E q \in Questions \ {<<>>}, kk \in KValues \ {0} : Invoke(q, kk)
    \/ \E rows \in SeqsUpTo(Store, MaxChunks) : RetrieverReturns(rows)
    \/ \E e \in RetrieverErrors : RetrieverRaises(e)
    \/ BuildPrompt
    \/ CallLlm
    \/ \E o \in RemoteOutcomes : RemoteEnds(o)
    \/ Finish

SpecContract == Init /\ [][NextContract]_vars

----------------------------------------------------------------------------
(* build_context_string as a function of every fragment sequence *)

InitCtx ==
    /\ env = None
    /\ modState = "unloaded"
    /\ clientKey = None
    /\ pc = "ctx_input"
    /\ question = <<>>
    /\ k = 0
    /\ chunks \in SeqsUpTo(Fragments, MaxChunks)
    /\ context = <<>>
    /\ prompt = <<>>
    /\ api_key = <<>>
    /\ remote = <<>>
    /\ answer = NoneValue
    /\ result = <<>>
    /\ error = <<>>
    /\ retrRaised = <<>>
    /\ log = <<>>

ApplyBuildContextString ==
    /\ pc = "ctx_input"
    /\ context' = build_context_string(chunks)
    /\ pc' = "ctx_done"
    /\ UNCHANGED <<env, modState, clientKey, question, k, chunks, prompt, api_key,
                   remote, answer, result, error, retrRaised, log>>

NextCtx == ApplyBuildContextString

SpecCtx == InitCtx /\ [][NextCtx]_vars

----------------------------------------------------------------------------
(* Properties *)

Ops(l) == [i \in 1..Len(l) |-> l[i].op]

IsPrefix(a, b) == Len(a) <= Len(b) /\ SubSeq(b, 1, Len(a)) = a

\* the calls of one complete invocation of answer_question, in order
FullOrder == <<"retrieve_chunks", "build_prompt", "call_llm", "create">>

PromptBuilt == \E i \in 1..Len(log) : log[i].op = "build_prompt"

RequestSent == \E i \in 1..Len(log) : log[i].op = "create"

\* C1: every fragment of the returned "chunks" appears in prompt_used as its
\* header followed by its unmodified text, and prompt_used contains the
\* question text unmodified.
C1_PromptHoldsFragmentsAndQuestion ==
    pc = "returned" =>
        LET r == result[1]
        IN  /\ \A i \in 1..Len(r.chunks) :
                   Contains(r.prompt_used, Block(r.chunks[i]))
            /\ Contains(r.prompt_used, question)

Marker == <<"LLM", Sp, "CALL", Sp, "FAILED">>

RemoteFailed ==
    remote # <<>> /\ remote[1].kind \in {"raised", "no_choices", "null_content"}

\* C2: when the remote call fails (raised error or malformed response),
\* call_llm returns a non-empty string holding the marker, the failure kind,
\* the failure detail and the prompt, and answer_question returns it as answer.
C2_FailureYieldsDiagnostic ==
    (pc = "returned" /\ RemoteFailed) =>
        /\ answer.type = "str"
        /\ answer.val # <<>>
        /\ Contains(answer.val, Marker)
        /\ Contains(answer.val, <<remote[1].type>>)
        /\ Contains(answer.val, remote[1].detail)
        /\ Contains(answer.val, prompt)
        /\ result[1].answer = answer

\* C3: when OPENAI_API_KEY is unset or empty as call_llm is entered, call_llm
\* raises an error naming OPENAI_API_KEY, sends no request, and the error
\* leaves answer_question: no result is returned.
C3_MissingKeyRaises ==
    (api_key # <<>> /\ Absent(api_key[1])) =>
        /\ pc = "raised"
        /\ error # <<>>
        /\ error[1].type = "RuntimeError"
        /\ Contains(error[1].msg, <<"OPENAI_API_KEY">>)
        /\ ~RequestSent
        /\ remote = <<>>
        /\ result = <<>>

C3_Witness ==
    pc = "raised" /\ api_key # <<>> /\ Absent(api_key[1]) /\ PromptBuilt

\* C4: the key used for the remote request of a call is the value
\* OPENAI_API_KEY has when call_llm is entered.
C4_KeyResolvedAtCallTime ==
    \A i \in 1..Len(log) : log[i].op = "create" => log[i].key = api_key[1]

\* C5: with an empty question or a k below 1, answer_question reports an
\* invalid-argument error at once: no retrieval, no prompt, no completion.
C5_InvalidInputRejected ==
    (pc # "idle" /\ (question = <<>> \/ k < 1)) =>
        /\ pc = "raised"
        /\ error # <<>>
        /\ error[1].type \in {"ValueError", "TypeError"}
        /\ log = <<>>

\* C6: the calls of an invocation are made in the order retrieval, prompt
\* construction, completion, each at most once; every completion call
\* receives the finished prompt; an invocation that returns has made each
\* call exactly once, also when the completion failed, and prompt_used is
\* the string that was sent.
C6_OneRetrievalOneCompletionInOrder ==
    /\ IsPrefix(Ops(log), FullOrder)
    /\ \A i \in 1..Len(log) :
           log[i].op \in {"call_llm", "create"} =>
               PromptBuilt /\ log[i].arg = prompt
    /\ pc = "returned" =>
           /\ Ops(log) = FullOrder
           /\ result[1].prompt_used = log[4].arg
           /\ result[1].chunks = chunks

C6_Witness ==
    pc = "returned" /\ remote[1].kind = "raised" /\ Len(chunks) = MaxChunks

\* C7: a returned result always has a string as its answer, whatever the
\* outcome of the remote call.
C7_AnswerIsString ==
    pc = "returned" => result[1].answer.type = "str"

\* --- C8: the serialised context, read back ---

\* the header line of a fragment as the context is to show it
ExpectedHeader(row) ==
    <<"[chunk_id=", ToString(row.chunk_id), ",", Sp, "source=", row.source,
      ",", Sp, "doc_type=", row.doc_type, ",", Sp, "year=",
      ToString(row.year), "]">>

Numbers == Ids \cup {o.year : o \in Origins}

IsNumeral(t) == \E n \in Numbers : ToString(n) = t

ParseInt(t) == CHOOSE n \in Numbers : ToString(n) = t

\* a line of the form [chunk_id=<int>, source=<word>, doc_type=<word>, year=<int>]
IsHeaderLine(l) ==
    /\ Len(l) = 15
    /\ l[1] = "[chunk_id=" /\ IsNumeral(l[2])
    /\ l[3] = "," /\ l[4] = Sp /\ l[5] = "source="
    /\ l[7] = "," /\ l[8] = Sp /\ l[9] = "doc_type="
    /\ l[11] = "," /\ l[12] = Sp /\ l[13] = "year=" /\ IsNumeral(l[14])
    /\ l[15] = "]"

\* the headers found in a string, in order of appearance
ParseHeaders(s) ==
    LET hs == SelectSeq(SplitLines(s), IsHeaderLine)
    IN  [i \in 1..Len(hs) |->
            [chunk_id |-> ParseInt(hs[i][2]), source |-> hs[i][6],
             doc_type |-> hs[i][10], year |-> ParseInt(hs[i][14])]]

Meta(row) == [chunk_id |-> row.chunk_id, source |-> row.source,
              doc_type |-> row.doc_type, year |-> row.year]

\* position in the context at which the block of row i is to start
RECURSIVE BlockStart(_, _)
BlockStart(rows, i) ==
    IF i = 1 THEN 1
    ELSE BlockStart(rows, i - 1) + Len(ExpectedHeader(rows[i - 1])) + 1
         + Len(rows[i - 1].text) + 2

\* one block per row, in input order: header line, newline, text; two
\* newlines between consecutive blocks; nothing else
BlocksInOrder(rows, s) ==
    /\ rows = <<>> => s = <<>>
    /\ \A i \in 1..Len(rows) :
        LET at == BlockStart(rows, i)
            h  == ExpectedHeader(rows[i])
        IN  /\ StartsAt(s, at, h \o <<Nl>> \o rows[i].text)
            /\ IF i < Len(rows)
               THEN StartsAt(s, at + Len(h) + 1 + Len(rows[i].text), <<Nl, Nl>>)
               ELSE Len(s) = at + Len(h) + Len(rows[i].text)

HeadersReadBack(rows, s) ==
    ParseHeaders(s) = [i \in 1..Len(rows) |-> Meta(rows[i])]

NoHeaderInTexts(rows) ==
    \A i \in 1..Len(rows) :
        LET ls == SplitLines(rows[i].text)
        IN  \A j \in 1..Len(ls) : ~IsHeaderLine(ls[j])

\* C8 (as stated): for every fragment sequence the context is one block per
\* fragment in input order, joined by one blank line, and the headers parsed
\* back from it are the (id, source, doc_type, year) of the input, in order.
C8_ContextRoundTrip ==
    pc = "ctx_done" =>
        /\ BlocksInOrder(chunks, context)
        /\ HeadersReadBack(chunks, context)

\* C8 (amended): the context is one block per fragment in input order, joined
\* by one blank line, empty for the empty sequence; when no fragment text
\* holds a line of header form, the headers parsed back from it are the
\* (id, source, doc_type, year) of the input, in order.
C8_ContextRoundTripCleanTexts ==
    pc = "ctx_done" =>
        /\ BlocksInOrder(chunks, context)
        /\ NoHeaderInTexts(chunks) => HeadersReadBack(chunks, context)

C8_Witness ==
    /\ pc = "ctx_done"
    /\ Len(chunks) = 2
    /\ chunks[1] = chunks[2]
    /\ NoHeaderInTexts(chunks)
    /\ Len(ParseHeaders(context)) = 2

\* --- C9 ---

FixedLines ==
    {RoleLine, GroundingLine, FallbackRuleLine, FallbackSentenceLine,
     RulesLabel, Rule1, Rule2, Rule3, Rule4, QuestionLabel, ChunksLabel,
     OutputLabel, Output1, Output2, Output3}

HasLine(s, line) ==
    LET ls == SplitLines(s) IN \E i \in 1..Len(ls) : ls[i] = line

\* C9: in every prompt build_prompt returns, each fixed instruction line of
\* the template stands at column 0, and the prompt neither starts nor ends
\* with whitespace.
C9_InstructionLinesAtColumnZero ==
    PromptBuilt =>
        /\ \A line \in FixedLines : HasLine(prompt, line)
        /\ prompt # <<>>
        /\ ~IsWhitespace(prompt[1])
        /\ ~IsWhitespace(prompt[Len(prompt)])

\* C10: when retrieve_chunks raises, that same error leaves answer_question;
\* retrieval is not repeated, no prompt is built, the completion client is
\* not called and no result is returned.
C10_RetrieverErrorPropagates ==
    retrRaised # <<>> =>
        /\ pc = "raised"
        /\ error = retrRaised
        /\ Ops(log) = <<"retrieve_chunks">>
        /\ prompt = <<>>
        /\ api_key = <<>>
        /\ remote = <<>>
        /\ result = <<>>

C10_Witness ==
    pc = "raised" /\ retrRaised # <<>> /\ question # <<>> /\ k >= 1

====
